---- MODULE Spec2Model ----
(***************************************************************************)
(* Model of the multi-agent learner of marl/agents/learning.py             *)
(* (MALearner and MALearnerPopArt): the replicated TrainingState, the      *)
(* pmap(vmap(sgd_step)) update with its cross-replica pmean, the learner   *)
(* driver step() with counter, agent reshuffle and logger, the checkpoint  *)
(* surface save()/restore() and the prediction path; of the optimizer      *)
(* chain the builders of marl/agents/impala/builder.py hand to it; and of  *)
(* the pot features of featurize_state in support_rohan.py.                *)
(*                                                                         *)
(* Numbers are integers standing for the float leaves of the parameter     *)
(* trees: one scalar leaf per agent for params, opt_state and popart_state.*)
(* A mean of integers rounds towards minus infinity (\div).                *)
(***************************************************************************)
EXTENDS Integers, Sequences, FiniteSets, TLC

\* ---------------------------------------------------------------- bounds
NumReplicas == 2      \* len(self._local_devices)
NumAgents == 2        \* n_agents
MaxBatches == 2       \* number of samples the iterator yields before it is exhausted
NumBatchKinds == 2    \* number of different replay samples the iterator may yield
MaxSeed == 0          \* random_key ranges over 0..MaxSeed
KeyMod == 5           \* PRNG keys are the integers modulo KeyMod
MaxMomentum == 2      \* config.rmsprop_momentum ranges over 0..MaxMomentum
MaxCookTime == 2      \* a cooking soup has 1..MaxCookTime ticks remaining

\* ------------------------------------------------------ program constants
ShuffleCadence == 1   \* "Shuffle the parameters every 1 learner steps"
MaxGradientNorm == 2  \* config.max_gradient_norm of clip_by_global_norm
FirstDevice == 1      \* index taken by get_from_first_device
num_pots == 2         \* featurize_state(..., num_pots=2): pot slots encoded per player

Replicas == 1..NumReplicas
Agents == 1..NumAgents
Seeds == 0..MaxSeed
SampleVals == 0..2
ElapsedVals == {1}

VARIABLES
    seed,            \* random_key given to the constructor
    popart,          \* TRUE: MALearnerPopArt, FALSE: MALearner
    rng,             \* self._rng: internal key of the hk.PRNGSequence
    combined,        \* self._combined_states: replica -> TrainingState (leaves stacked on the agent axis)
    counts,          \* self._counter
    log,             \* records written to self._logger
    itLeft,          \* samples the iterator still holds
    pc,              \* "idle" | "sgd": position of the driver inside step()
    samples,         \* the batch of the running step: replica -> agent -> sample
    rpc,             \* replica -> "idle" | "grad" | "reduce" | "done": position inside sgd_step
    contributed,     \* replicas whose gradient has entered the pmean of the running step
    grads,           \* replica -> agent -> raw gradient handed to pmean
    reduced,         \* replica -> agent -> gradient returned by pmean to that replica
    out,             \* replica -> (new_state, metrics) returned by sgd_step on that replica
    snapshot,        \* <<s>> when the latest save() returned s, <<>> before any save()
    selected_order,  \* the order drawn by the latest _step_on_data
    readParams,      \* parameters read by the latest _get_actions / get_variables
    lastOp,          \* the latest call made on the learner
    error,           \* exception raised by the latest call ("" when none)
    replaced,        \* field of TrainingState -> number of times the update step has replaced it
    atCall,          \* <<s>>: s holds the learner's state when the running or failed step() was called
    config,          \* self._config of the builder
    optimizer,       \* the optax chain built by make_learner (<<>> before)
    overcooked_state,\* player -> pot slot -> the pot handed to make_pot_feature
    all_features     \* player -> pot slot -> the pot features featurize_state encoded (<<>> before)

vars == <<seed, popart, rng, combined, counts, log, itLeft, pc, samples, rpc,
          contributed, grads, reduced, out, snapshot, selected_order,
          readParams, lastOp, error, replaced, atCall, config, optimizer,
          overcooked_state, all_features>>

\* the state outside the learner: the builder's and the featurizer's
outside == <<config, optimizer, overcooked_state, all_features>>

None == "none"

\* ------------------------------------------------------------- arithmetic
Abs(x) == IF x < 0 THEN -x ELSE x
Sign(x) == IF x < 0 THEN -1 ELSE IF x > 0 THEN 1 ELSE 0
ISqrt(x) == CHOOSE r \in 0..x : r * r <= x /\ (r + 1) * (r + 1) > x

RECURSIVE SumOver(_, _)
SumOver(f, S) ==
    IF S = {} THEN 0
    ELSE LET x == CHOOSE y \in S : TRUE IN f[x] + SumOver(f, S \ {x})

\* ------------------------------------------------------------------- PRNG
\* jax.random.split(key) -> (key, subkey)
JaxSplit(key) == <<(key + 1) % KeyMod, (3 * key + 2) % KeyMod>>

\* next(self._rng): the sequence keeps the first half and hands out the second
RngNext(key) == [rng |-> JaxSplit(key)[1], key |-> JaxSplit(key)[2]]

RECURSIVE RngSkip(_, _)
RngSkip(key, n) == IF n = 0 THEN key ELSE RngSkip(RngNext(key).rng, n - 1)

RemoveAt(s, j) == [k \in 1..(Len(s) - 1) |-> IF k < j THEN s[k] ELSE s[k + 1]]

RECURSIVE DrawWithoutReplacement(_, _)
DrawWithoutReplacement(pool, code) ==
    IF Len(pool) = 0 THEN <<>>
    ELSE LET j == (code % Len(pool)) + 1
         IN <<pool[j]>> \o DrawWithoutReplacement(RemoveAt(pool, j), code \div Len(pool))

\* jax.random.choice(key, n, (n,), replace=True): every entry drawn on its own
DrawWithReplacement(key, n) == [k \in 1..n |-> (((key + k) * (k + 1)) % n) + 1]

RandomChoiceReplace(key, n) == DrawWithReplacement(key, n)

\* jax.random.choice(key, n_agents, (n_agents,), replace=False)
RandomChoice(key, n) == DrawWithoutReplacement([k \in 1..n |-> k], key)

\* --------------------------------------------------- network, loss, optimizer
\* network.initial_state_fn(key): the recurrent state a key initialises
InitialStateFn(key) == key % 2

\* network.unroll_init_fn(key, initial_state): the parameters a key initialises
UnrollInitFn(key, initial_state) == (key + initial_state) % 3

\* popart.init_fn()
PopArtInitFn == 0

\* optimizer.init(params): the RMSProp accumulator
OptimizerInit(params) == 0

\* optax.clip_by_global_norm(max_gradient_norm), first stage of the chain
ClipByGlobalNorm(g) ==
    IF g > MaxGradientNorm THEN MaxGradientNorm
    ELSE IF g < -MaxGradientNorm THEN -MaxGradientNorm
    ELSE g

\* optimizer.update(gradients, opt_state): clip, then an RMSProp-style step
\* (the accumulator adds the squared gradient, the update is the gradient
\* divided by the root of the accumulator)
OptimizerUpdate(g, opt_state) ==
    LET c == ClipByGlobalNorm(g)
        nu == opt_state + c * c
        scale == IF ISqrt(nu) < 1 THEN 1 ELSE ISqrt(nu)
    IN [updates |-> -Sign(c) * (Abs(c) \div scale), opt_state |-> nu]

\* optax.apply_updates(params, updates)
ApplyUpdates(params, updates) == params + updates

\* jax.lax.psum over the replica axis
PSum(xs) == SumOver(xs, Replicas)

\* jax.lax.pmean(x, "data"): xs is replica -> the value that replica contributes
PMean(xs) == SumOver(xs, Replicas) \div NumReplicas

\* popart.update_fn built with axis_name = "data": the statistics of one agent's
\* targets are reduced over the replica axis before the running value moves
\* half of the way (rounded up) towards them
PopArtUpdateFn(popart_state, targets) ==
    popart_state + ((PMean(targets) - popart_state + 1) \div 2)

\* jax.grad(self._loss_fn, has_aux=True)(state.params, sample) of MALearner
LossGrad(params, sample) == params - sample

\* jax.grad(self._loss_fn, has_aux=True)(state.params, state.popart_state, sample)
\* of MALearnerPopArt; new_popart_state is the aux output
PopArtLossGrad(params, new_popart_state, sample) == params + new_popart_state - sample

\* ------------------------------------------------------------ TrainingState
Fields(pop) ==
    IF pop THEN {"params", "opt_state", "popart_state"} ELSE {"params", "opt_state"}

\* make_initial_state(key) -> (TrainingState, key)
MakeInitialState(key, pop) ==
    LET k == JaxSplit(key)[1]
        key_initial_state == JaxSplit(key)[2]
        initial_params == UnrollInitFn(k, InitialStateFn(key_initial_state))
    IN [state |-> IF pop
                  THEN [params |-> initial_params,
                        opt_state |-> OptimizerInit(initial_params),
                        popart_state |-> PopArtInitFn]
                  ELSE [params |-> initial_params,
                        opt_state |-> OptimizerInit(initial_params)],
        key |-> k]

\* make_initial_states(key): the key is threaded through the agents
RECURSIVE MakeInitialStates(_, _, _)
MakeInitialStates(key, pop, n) ==
    IF n = 0 THEN <<>>
    ELSE LET r == MakeInitialState(key, pop)
         IN <<r.state>> \o MakeInitialStates(r.key, pop, n - 1)

\* ma_utils.merge_data: per-agent records stacked along the agent axis
MergeData(states) ==
    [f \in DOMAIN states[1] |-> [i \in 1..Len(states) |-> states[i][f]]]

\* ma_utils.select_idx(state, order): every leaf indexed by order on the agent axis
SelectIdx(state, order) ==
    [f \in DOMAIN state |-> [i \in 1..Len(order) |-> state[f][order[i]]]]

\* acme_utils.replicate_in_all_devices, splitting instead of broadcasting:
\* device d receives the slice d of the agent axis
ReplicateSharded(state) ==
    [d \in Replicas |->
        [f \in DOMAIN state |-> [i \in Agents |-> state[f][((d - 1) % NumAgents) + 1]]]]

\* acme_utils.replicate_in_all_devices(state, self._local_devices)
ReplicateInAllDevices(state) == [d \in Replicas |-> state]

\* acme_utils.get_from_first_device(x)
GetFromFirstDevice(x) == x[FirstDevice]

\* the per-agent record (params, opt_state[, popart_state]) of agent i
AgentRecord(state, i) == [f \in DOMAIN state |-> state[f][i]]

\* ------------------------------------------------------- checkpoint surface
\* MALearner.save(): "Serialize only the first replica of parameters and
\* optimizer state"
Save(cmb) == GetFromFirstDevice(cmb)

\* MALearner.restore(state)
Restore(state) == ReplicateInAllDevices(state)

\* ------------------------------------------------------------------ sgd_step
IsPopArt(state) == "popart_state" \in DOMAIN state

\* the slice of the batch that vmap hands to agent i on each replica
AgentTargets(smp, i) == [e \in Replicas |-> smp[e][i]]

\* new_popart_state of agent i (aux output of the PopArt loss)
NewPopArtState(state, smp, i) ==
    PopArtUpdateFn(state.popart_state[i], AgentTargets(smp, i))

\* a loss whose gradient for agent i reads the parameters of every agent
RawGradientMixed(state, smp, d, i) ==
    IF IsPopArt(state)
    THEN PopArtLossGrad(SumOver(state.params, Agents), NewPopArtState(state, smp, i), smp[d][i])
    ELSE LossGrad(SumOver(state.params, Agents), smp[d][i])

\* gradients, aux = grad_fn(state.params, [state.popart_state,] sample) on
\* replica d for agent i: vmap hands sgd_step agent i's slice alone
RawGradient(state, smp, d, i) ==
    IF IsPopArt(state)
    THEN PopArtLossGrad(state.params[i], NewPopArtState(state, smp, i), smp[d][i])
    ELSE LossGrad(state.params[i], smp[d][i])

\* the rest of sgd_step for agent i on one replica once pmean has returned g:
\* optimizer.update, apply_updates, the two norms, the new TrainingState
AgentStep(state, smp, g, i) ==
    LET upd == OptimizerUpdate(g, state.opt_state[i])
        new_params == ApplyUpdates(state.params[i], upd.updates)
    IN [state |-> IF IsPopArt(state)
                  THEN [params |-> new_params,
                        opt_state |-> upd.opt_state,
                        popart_state |-> NewPopArtState(state, smp, i)]
                  ELSE [params |-> new_params, opt_state |-> upd.opt_state],
        metrics |-> [param_norm |-> Abs(new_params),
                     param_updates_norm |-> Abs(upd.updates)]]

\* jax.vmap(sgd_step, in_axes=(0, 2)) on one replica after the reduction: the
\* per-agent results stacked along the agent axis; g is agent -> reduced gradient
ApplyStep(state, g, smp) ==
    LET per == [i \in Agents |-> AgentStep(state, smp, g[i], i)]
    IN [state |-> [f \in DOMAIN state |-> [i \in Agents |-> per[i].state[f]]],
        metrics |-> [m \in {"param_norm", "param_updates_norm"} |->
                        [i \in Agents |-> per[i].metrics[m]]]]

\* the gradient pmean returns for agent i: the mean of the replicas' gradients
ReducedGradient(cmb, smp, i) ==
    PMean([e \in Replicas |-> RawGradient(cmb[e], smp, e, i)])

\* what self._sgd_step returns on replica d for agent i
SgdStepFor(cmb, smp, d, i) ==
    AgentStep(cmb[d], smp, ReducedGradient(cmb, smp, i), i)

\* self._sgd_step = jax.pmap(jax.vmap(sgd_step, in_axes=(0, 2)), axis_name="data")
SgdStep(cmb, smp) ==
    [d \in Replicas |->
        ApplyStep(cmb[d], [i \in Agents |-> ReducedGradient(cmb, smp, i)], smp)]

\* the replay samples the iterator may yield: replica -> agent -> sample
BatchOf(k) ==
    [d \in Replicas |-> [i \in Agents |-> (k * d + i) % Cardinality(SampleVals)]]

Batches == {BatchOf(k) : k \in 1..NumBatchKinds}

\* --------------------------------------------------------------- builders
\* the configurations a builder may hold; numbers stand for the float settings
Momenta == 0..MaxMomentum
ClipNorms == MaxGradientNorm..(MaxGradientNorm + 2)
LearningRates == 1..3
Decays == 0..1

Configs ==
    [rmsprop_momentum : Momenta, max_gradient_norm : ClipNorms,
     learning_rate : LearningRates, rmsprop_decay : Decays]

\* the configuration of the learner the training run starts from
DefaultConfig ==
    [rmsprop_momentum |-> 0, max_gradient_norm |-> MaxGradientNorm,
     learning_rate |-> 1, rmsprop_decay |-> 0]

\* a chain whose RMSProp stage is handed the configured momentum as it is
IMPALAOptimizerMomentumKept(cfg) ==
    << [name |-> "clip_by_global_norm", max_norm |-> cfg.max_gradient_norm],
       [name |-> "rmsprop", learning_rate |-> cfg.learning_rate,
        decay |-> cfg.rmsprop_decay,
        momentum |-> <<cfg.rmsprop_momentum>>] >>

\* IMPALABuilder.make_learner: optax.chain(clip_by_global_norm, rmsprop); an
\* optional argument is <<>> for None and <<v>> for the value v
IMPALAOptimizer(cfg) ==
    << [name |-> "clip_by_global_norm", max_norm |-> cfg.max_gradient_norm],
       [name |-> "rmsprop", learning_rate |-> cfg.learning_rate,
        decay |-> cfg.rmsprop_decay,
        momentum |-> IF cfg.rmsprop_momentum # 0
                     THEN <<cfg.rmsprop_momentum>> ELSE <<>>] >>

\* PopArtIMPALABuilder.make_learner: the same chain, written out again there
PopArtIMPALAOptimizer(cfg) ==
    << [name |-> "clip_by_global_norm", max_norm |-> cfg.max_gradient_norm],
       [name |-> "rmsprop", learning_rate |-> cfg.learning_rate,
        decay |-> cfg.rmsprop_decay,
        momentum |-> IF cfg.rmsprop_momentum # 0
                     THEN <<cfg.rmsprop_momentum>> ELSE <<>>] >>

\* ------------------------------------------------------------------- Init
ZeroCounts == [learner_steps |-> 0, learner_time_elapsed |-> 0]

Init ==
    /\ seed \in Seeds
    /\ popart \in BOOLEAN
    /\ rng = RngNext(seed).rng
    /\ combined = ReplicateInAllDevices(
                      MergeData(MakeInitialStates(RngNext(seed).key, popart, NumAgents)))
    /\ counts = ZeroCounts
    /\ log = <<>>
    /\ itLeft = MaxBatches
    /\ pc = "idle"
    /\ samples = None
    /\ rpc = [d \in Replicas |-> "idle"]
    /\ contributed = {}
    /\ grads = [d \in Replicas |-> [i \in Agents |-> 0]]
    /\ reduced = [d \in Replicas |-> [i \in Agents |-> 0]]
    /\ out = [d \in Replicas |-> None]
    /\ snapshot = <<>>
    /\ selected_order = <<>>
    /\ readParams = <<>>
    /\ lastOp = "init"
    /\ error = ""
    /\ replaced = [f \in Fields(popart) |-> 0]
    /\ atCall = <<>>
    /\ config = DefaultConfig
    /\ optimizer = IF popart THEN PopArtIMPALAOptimizer(config)
                              ELSE IMPALAOptimizer(config)
    /\ overcooked_state = <<>>
    /\ all_features = <<>>

\* _step_on_data, "Shuffle the parameters": a key is drawn from self._rng, an
\* order is chosen with it, and save / select_idx / restore apply the order
ShuffleAgents(cmb, key) ==
    LET draw == RngNext(key)
        selected == RandomChoice(draw.key, NumAgents)
        shuffle_state == SelectIdx(Save(cmb), selected)
    IN [order |-> selected, combined |-> Restore(shuffle_state), rng |-> draw.rng]

\* ---------------------------------------------------------------- actions
\* what a step() finds when it is called
AtCall == [combined |-> combined, counts |-> counts, rng |-> rng,
           replaced |-> replaced, log |-> log]

ZeroGrads == [d \in Replicas |-> [i \in Agents |-> 0]]

\* step(): samples = next(self._iterator) succeeds; _sgd_step is entered
StepPull(b) ==
    /\ pc = "idle"
    /\ itLeft > 0
    /\ itLeft' = itLeft - 1
    /\ samples' = b
    /\ pc' = "sgd"
    /\ rpc' = [d \in Replicas |-> "grad"]
    /\ contributed' = {}
    /\ grads' = ZeroGrads
    /\ reduced' = ZeroGrads
    /\ out' = [d \in Replicas |-> None]
    /\ selected_order' = <<>>
    /\ readParams' = <<>>
    /\ lastOp' = "step"
    /\ error' = ""
    /\ atCall' = <<AtCall>>
    /\ UNCHANGED <<outside, replaced, seed, popart, rng, combined, counts, log, snapshot>>

\* step() that counts the step before it pulls the batch
StepExhaustedCounted ==
    /\ pc = "idle"
    /\ itLeft = 0
    /\ counts' = [counts EXCEPT !.learner_steps = @ + 1]
    /\ lastOp' = "step"
    /\ error' = "StopIteration"
    /\ atCall' = <<AtCall>>
    /\ UNCHANGED <<outside, replaced, seed, popart, rng, combined, log, itLeft, pc, samples, rpc,
                   contributed, grads, reduced, out, snapshot, selected_order,
                   readParams>>

\* step(): next(self._iterator) raises StopIteration, nothing catches it
StepExhausted ==
    /\ pc = "idle"
    /\ itLeft = 0
    /\ lastOp' = "step"
    /\ error' = "StopIteration"
    /\ atCall' = <<AtCall>>
    /\ UNCHANGED <<outside, replaced, seed, popart, rng, combined, counts, log, itLeft, pc, samples,
                   rpc, contributed, grads, reduced, out, snapshot, selected_order,
                   readParams>>

\* sgd_step on replica d up to its pmean: the gradient is computed and contributed
ReplicaGrad(d) ==
    /\ pc = "sgd"
    /\ rpc[d] = "grad"
    /\ grads' = [grads EXCEPT ![d] = [i \in Agents |-> RawGradient(combined[d], samples, d, i)]]
    /\ contributed' = contributed \cup {d}
    /\ rpc' = [rpc EXCEPT ![d] = "reduce"]
    /\ UNCHANGED <<outside, replaced, atCall, seed, popart, rng, combined, counts, log, itLeft, pc, samples,
                   reduced, out, snapshot, selected_order, readParams, lastOp, error>>

\* a reduction that returns as soon as the caller has contributed
PMeanNoBarrier == TRUE

\* jax.lax.pmean is a collective: it returns once every replica has contributed
PMeanReady == contributed = Replicas

\* sgd_step without the pmean line: replica d applies its own raw gradient
ReplicaApplyLocal(d) ==
    /\ pc = "sgd"
    /\ rpc[d] = "reduce"
    /\ PMeanReady
    /\ reduced' = [reduced EXCEPT ![d] = grads[d]]
    /\ out' = [out EXCEPT ![d] = ApplyStep(combined[d], grads[d], samples)]
    /\ rpc' = [rpc EXCEPT ![d] = "done"]
    /\ UNCHANGED <<outside, replaced, atCall, seed, popart, rng, combined, counts, log, itLeft, pc, samples,
                   contributed, grads, snapshot, selected_order, readParams,
                   lastOp, error>>

\* sgd_step on replica d after its pmean: optimizer update and new state
ReplicaApply(d) ==
    /\ pc = "sgd"
    /\ rpc[d] = "reduce"
    /\ PMeanReady
    /\ LET g == [i \in Agents |-> PMean([e \in Replicas |-> grads[e][i]])]
       IN /\ reduced' = [reduced EXCEPT ![d] = g]
          /\ out' = [out EXCEPT ![d] = ApplyStep(combined[d], g, samples)]
    /\ rpc' = [rpc EXCEPT ![d] = "done"]
    /\ UNCHANGED <<outside, replaced, atCall, seed, popart, rng, combined, counts, log, itLeft, pc, samples,
                   contributed, grads, snapshot, selected_order, readParams,
                   lastOp, error>>

\* _step_on_data once _sgd_step has returned: the state is replaced, the counter
\* incremented, the agents reshuffled and the record written
StepFinish ==
    /\ pc = "sgd"
    /\ \A d \in Replicas : rpc[d] = "done"
    /\ \E dt \in ElapsedVals :
        LET new_combined == [d \in Replicas |-> out[d].state]
            results == GetFromFirstDevice([d \in Replicas |-> out[d].metrics])
            new_counts == [learner_steps |-> counts.learner_steps + 1,
                           learner_time_elapsed |-> counts.learner_time_elapsed + dt]
            shuffle == new_counts.learner_steps % ShuffleCadence = 0
            shuffled == ShuffleAgents(new_combined, rng)
        IN /\ counts' = new_counts
           /\ combined' = IF shuffle THEN shuffled.combined ELSE new_combined
           /\ rng' = IF shuffle THEN shuffled.rng ELSE rng
           /\ selected_order' = IF shuffle THEN shuffled.order ELSE <<>>
           /\ log' = Append(log, [param_norm |-> results.param_norm,
                                  param_updates_norm |-> results.param_updates_norm,
                                  learner_steps |-> new_counts.learner_steps,
                                  learner_time_elapsed |-> new_counts.learner_time_elapsed])
    /\ pc' = "idle"
    /\ rpc' = [d \in Replicas |-> "idle"]
    /\ samples' = None
    /\ contributed' = {}
    /\ grads' = ZeroGrads
    /\ reduced' = ZeroGrads
    /\ out' = [d \in Replicas |-> None]
    /\ replaced' = [f \in DOMAIN replaced |-> replaced[f] + 1]
    /\ atCall' = <<>>
    /\ UNCHANGED <<outside, seed, popart, itLeft, snapshot, readParams, lastOp, error>>

\* save() that adds the counter values to the state it returns
DoSaveWithCounts ==
    /\ pc = "idle"
    /\ snapshot' = <<[f \in DOMAIN Save(combined) \cup DOMAIN counts |->
                        IF f \in DOMAIN counts THEN counts[f] ELSE Save(combined)[f]]>>
    /\ selected_order' = <<>>
    /\ readParams' = <<>>
    /\ lastOp' = "save"
    /\ error' = ""
    /\ atCall' = <<>>
    /\ UNCHANGED <<outside, replaced, seed, popart, rng, combined, counts, log, itLeft, pc, samples,
                   rpc, contributed, grads, reduced, out>>

\* save()
DoSave ==
    /\ pc = "idle"
    /\ snapshot' = <<Save(combined)>>
    /\ selected_order' = <<>>
    /\ readParams' = <<>>
    /\ lastOp' = "save"
    /\ error' = ""
    /\ atCall' = <<>>
    /\ UNCHANGED <<outside, replaced, seed, popart, rng, combined, counts, log, itLeft, pc, samples,
                   rpc, contributed, grads, reduced, out>>

\* restore(state) with a state that save() returned earlier
DoRestore ==
    /\ pc = "idle"
    /\ snapshot # <<>>
    /\ combined' = Restore(snapshot[1])
    /\ selected_order' = <<>>
    /\ readParams' = <<>>
    /\ lastOp' = "restore"
    /\ error' = ""
    /\ atCall' = <<>>
    /\ UNCHANGED <<outside, replaced, seed, popart, rng, counts, log, itLeft, pc, samples, rpc,
                   contributed, grads, reduced, out, snapshot>>

\* _get_actions that writes the parameters it was handed back into the state
GetActionsWriting ==
    /\ pc = "idle"
    /\ readParams' = [d \in Replicas |-> combined[d].params]
    /\ combined' = [d \in Replicas |->
                      [combined[d] EXCEPT !.opt_state = combined[d].params]]
    /\ rng' = RngNext(rng).rng
    /\ selected_order' = <<>>
    /\ lastOp' = "get_actions"
    /\ error' = ""
    /\ atCall' = <<>>
    /\ UNCHANGED <<outside, replaced, seed, popart, counts, log, itLeft, pc, samples, rpc,
                   contributed, grads, reduced, out, snapshot>>

\* _get_actions(observations, lstm_states): self._predict_fn reads
\* self._combined_states.params on every replica; one key is drawn to sample
GetActions ==
    /\ pc = "idle"
    /\ readParams' = [d \in Replicas |-> combined[d].params]
    /\ rng' = RngNext(rng).rng
    /\ selected_order' = <<>>
    /\ lastOp' = "get_actions"
    /\ error' = ""
    /\ atCall' = <<>>
    /\ UNCHANGED <<outside, replaced, seed, popart, combined, counts, log, itLeft, pc, samples, rpc,
                   contributed, grads, reduced, out, snapshot>>

\* _get_initial_lstm_states(): one key per agent is drawn from self._rng
GetInitialLstmStates ==
    /\ pc = "idle"
    /\ rng' = RngSkip(rng, NumAgents)
    /\ selected_order' = <<>>
    /\ readParams' = <<>>
    /\ lastOp' = "get_initial_lstm_states"
    /\ error' = ""
    /\ atCall' = <<>>
    /\ UNCHANGED <<outside, replaced, seed, popart, combined, counts, log, itLeft, pc, samples, rpc,
                   contributed, grads, reduced, out, snapshot>>

\* get_variables(names): the first replica of the one-element list [params]
GetVariables ==
    /\ pc = "idle"
    /\ LET tree == <<[d \in Replicas |-> combined[d].params]>>
       IN readParams' = [k \in DOMAIN tree |-> GetFromFirstDevice(tree[k])]
    /\ selected_order' = <<>>
    /\ lastOp' = "get_variables"
    /\ error' = ""
    /\ atCall' = <<>>
    /\ UNCHANGED <<outside, replaced, seed, popart, rng, combined, counts, log, itLeft, pc, samples,
                   rpc, contributed, grads, reduced, out, snapshot>>

\* a new learner built from the same random_key, then restore(snapshot)
Reconstruct ==
    /\ pc = "idle"
    /\ snapshot # <<>>
    /\ rng' = RngNext(seed).rng
    /\ combined' = Restore(snapshot[1])
    /\ counts' = ZeroCounts
    /\ selected_order' = <<>>
    /\ readParams' = <<>>
    /\ lastOp' = "reconstruct"
    /\ error' = ""
    /\ atCall' = <<>>
    /\ UNCHANGED <<outside, replaced, seed, popart, log, itLeft, pc, samples, rpc, contributed,
                   grads, reduced, out, snapshot>>

Next ==
    \/ \E b \in Batches : StepPull(b)
    \/ StepExhausted
    \/ \E d \in Replicas : ReplicaGrad(d)
    \/ \E d \in Replicas : ReplicaApply(d)
    \/ StepFinish
    \/ DoSave
    \/ DoRestore
    \/ GetActions
    \/ GetInitialLstmStates
    \/ GetVariables

Spec == Init /\ [][Next]_vars

\* a training run with checkpoints and no prediction calls, in which the learner
\* may be rebuilt from its checkpoint
NextCkpt ==
    \/ \E b \in Batches : StepPull(b)
    \/ StepExhausted
    \/ \E d \in Replicas : ReplicaGrad(d)
    \/ \E d \in Replicas : ReplicaApply(d)
    \/ StepFinish
    \/ DoSave
    \/ DoRestore
    \/ Reconstruct

SpecCkpt == Init /\ [][NextCkpt]_vars

\* ------------------------------------ _step_on_data, statement by statement
\* an assignment that takes only the params of the update's result
StepAssignParamsOnly ==
    /\ pc = "sgd"
    /\ \A d \in Replicas : rpc[d] = "done"
    /\ combined' = [d \in Replicas |->
                      [combined[d] EXCEPT !.params = out[d].state.params]]
    /\ replaced' = [replaced EXCEPT !["params"] = @ + 1]
    /\ pc' = "count"
    /\ UNCHANGED <<outside, atCall, seed, popart, rng, counts, log, itLeft, samples,
                   rpc, contributed, grads, reduced, out, snapshot, selected_order,
                   readParams, lastOp, error>>

\* self._combined_states, results = self._sgd_step(self._combined_states, samples):
\* one assignment replaces every field of the TrainingState
StepAssign ==
    /\ pc = "sgd"
    /\ \A d \in Replicas : rpc[d] = "done"
    /\ combined' = [d \in Replicas |-> out[d].state]
    /\ replaced' = [f \in DOMAIN replaced |-> replaced[f] + 1]
    /\ pc' = "count"
    /\ UNCHANGED <<outside, atCall, seed, popart, rng, counts, log, itLeft, samples,
                   rpc, contributed, grads, reduced, out, snapshot, selected_order,
                   readParams, lastOp, error>>

\* counts = self._counter.increment(steps=1, time_elapsed=...)
StepCount ==
    /\ pc = "count"
    /\ \E dt \in ElapsedVals :
          counts' = [learner_steps |-> counts.learner_steps + 1,
                     learner_time_elapsed |-> counts.learner_time_elapsed + dt]
    /\ pc' = "shuffle"
    /\ UNCHANGED <<outside, replaced, atCall, seed, popart, rng, combined, log,
                   itLeft, samples, rpc, contributed, grads, reduced, out, snapshot,
                   selected_order, readParams, lastOp, error>>

\* if counts["learner_steps"] % 1 == 0: draw the order, save, select_idx, restore
StepShuffle ==
    /\ pc = "shuffle"
    /\ LET shuffle == counts.learner_steps % ShuffleCadence = 0
           shuffled == ShuffleAgents(combined, rng)
       IN /\ combined' = IF shuffle THEN shuffled.combined ELSE combined
          /\ rng' = IF shuffle THEN shuffled.rng ELSE rng
          /\ selected_order' = IF shuffle THEN shuffled.order ELSE <<>>
    /\ pc' = "log"
    /\ UNCHANGED <<outside, replaced, atCall, seed, popart, counts, log, itLeft,
                   samples, rpc, contributed, grads, reduced, out, snapshot,
                   readParams, lastOp, error>>

\* what step() leaves behind when it returns or raises after the batch pull
StepLeft ==
    /\ pc' = "idle"
    /\ rpc' = [d \in Replicas |-> "idle"]
    /\ samples' = None
    /\ contributed' = {}
    /\ grads' = ZeroGrads
    /\ reduced' = ZeroGrads
    /\ out' = [d \in Replicas |-> None]

\* a logger write that records the counts the step started from
StepLogStaleCounts ==
    /\ pc = "log"
    /\ LET results == GetFromFirstDevice([d \in Replicas |-> out[d].metrics])
       IN log' = Append(log, [param_norm |-> results.param_norm,
                              param_updates_norm |-> results.param_updates_norm,
                              learner_steps |-> atCall[1].counts.learner_steps,
                              learner_time_elapsed |-> atCall[1].counts.learner_time_elapsed])
    /\ StepLeft
    /\ atCall' = <<>>
    /\ UNCHANGED <<outside, replaced, seed, popart, rng, combined, counts, itLeft,
                   snapshot, selected_order, readParams, lastOp, error>>

\* self._logger.write({**results, **counts}); step() returns
StepLog ==
    /\ pc = "log"
    /\ LET results == GetFromFirstDevice([d \in Replicas |-> out[d].metrics])
       IN log' = Append(log, [param_norm |-> results.param_norm,
                              param_updates_norm |-> results.param_updates_norm,
                              learner_steps |-> counts.learner_steps,
                              learner_time_elapsed |-> counts.learner_time_elapsed])
    /\ StepLeft
    /\ atCall' = <<>>
    /\ UNCHANGED <<outside, replaced, seed, popart, rng, combined, counts, itLeft,
                   snapshot, selected_order, readParams, lastOp, error>>

\* the statement of _step_on_data the driver is at
Raising ==
    [sgd |-> "sgd_step", count |-> "increment", shuffle |-> "shuffle", log |-> "write"]

\* a step() wrapped so that a raise puts back the state and counter it was called with
StepRaiseRolledBack ==
    /\ pc \in DOMAIN Raising
    /\ error' = Raising[pc]
    /\ combined' = atCall[1].combined
    /\ counts' = atCall[1].counts
    /\ rng' = atCall[1].rng
    /\ replaced' = atCall[1].replaced
    /\ StepLeft
    /\ UNCHANGED <<outside, atCall, seed, popart, log, itLeft, snapshot,
                   selected_order, readParams, lastOp>>

\* the statement the driver is at raises; no handler exists in step() or
\* _step_on_data, so what was assigned before stays assigned. A raise inside the
\* shuffle block comes from save / select_idx / restore, after the key was drawn.
StepRaise ==
    /\ pc \in DOMAIN Raising
    /\ error' = Raising[pc]
    /\ rng' = IF pc = "shuffle" /\ counts.learner_steps % ShuffleCadence = 0
              THEN RngNext(rng).rng ELSE rng
    /\ StepLeft
    /\ UNCHANGED <<outside, replaced, atCall, seed, popart, combined, counts, log,
                   itLeft, snapshot, selected_order, readParams, lastOp>>

\* a training run whose steps are taken statement by statement and may raise
NextSteps ==
    \/ \E b \in Batches : StepPull(b)
    \/ StepExhausted
    \/ \E d \in Replicas : ReplicaGrad(d)
    \/ \E d \in Replicas : ReplicaApply(d)
    \/ StepAssign
    \/ StepCount
    \/ StepShuffle
    \/ StepLog
    \/ StepRaise
    \/ DoSave
    \/ DoRestore

SpecSteps == Init /\ [][NextSteps]_vars

\* ------------------------------------------------- building the learner
\* a builder holding some configuration, before make_learner is called
InitBuilder ==
    /\ config \in Configs
    /\ optimizer = <<>>
    /\ seed = 0
    /\ popart = FALSE
    /\ rng = 0
    /\ combined = <<>>
    /\ counts = ZeroCounts
    /\ log = <<>>
    /\ itLeft = MaxBatches
    /\ pc = "unbuilt"
    /\ samples = None
    /\ rpc = [d \in Replicas |-> "idle"]
    /\ contributed = {}
    /\ grads = [d \in Replicas |-> [i \in Agents |-> 0]]
    /\ reduced = [d \in Replicas |-> [i \in Agents |-> 0]]
    /\ out = [d \in Replicas |-> None]
    /\ snapshot = <<>>
    /\ selected_order = <<>>
    /\ readParams = <<>>
    /\ lastOp = "builder"
    /\ error = ""
    /\ replaced = <<>>
    /\ atCall = <<>>
    /\ overcooked_state = <<>>
    /\ all_features = <<>>

\* the learner constructor called by make_learner with the chain opt
LearnerConstructed(random_key, pop, opt) ==
    /\ optimizer' = opt
    /\ seed' = random_key
    /\ popart' = pop
    /\ rng' = RngNext(random_key).rng
    /\ combined' = ReplicateInAllDevices(
                       MergeData(MakeInitialStates(RngNext(random_key).key, pop, NumAgents)))
    /\ replaced' = [f \in Fields(pop) |-> 0]
    /\ pc' = "idle"
    /\ lastOp' = "init"
    /\ UNCHANGED <<config, counts, log, itLeft, samples, rpc, contributed, grads,
                   reduced, out, snapshot, selected_order, readParams, error,
                   atCall, overcooked_state, all_features>>

\* IMPALABuilder.make_learner(random_key, ...)
IMPALAMakeLearner(random_key) ==
    /\ pc = "unbuilt"
    /\ LearnerConstructed(random_key, FALSE, IMPALAOptimizer(config))

\* PopArtIMPALABuilder.make_learner(random_key, ...)
PopArtIMPALAMakeLearner(random_key) ==
    /\ pc = "unbuilt"
    /\ LearnerConstructed(random_key, TRUE, PopArtIMPALAOptimizer(config))

NextBuilder ==
    \/ \E k \in Seeds : IMPALAMakeLearner(k)
    \/ \E k \in Seeds : PopArtIMPALAMakeLearner(k)

SpecBuilder == InitBuilder /\ [][NextBuilder]_vars

\* ------------------------------------------------------------ featurizer
Players == 0..1
PotSlots == 0..(num_pots - 1)
PotLocs == 1..2

\* what a pot of the layout may hold: nothing, a soup still taking ingredients
\* (soup.is_idle), a cooking soup, or a ready soup whose remaining time is zero
PotContents ==
    {[phase |-> "empty", num_onions |-> 0, cook_time_remaining |-> 0]}
    \cup [phase : {"idle"}, num_onions : 1..2, cook_time_remaining : {0}]
    \cup [phase : {"cooking"}, num_onions : {3}, cook_time_remaining : 1..MaxCookTime]
    \cup {[phase |-> "ready", num_onions |-> 3, cook_time_remaining |-> 0]}

\* the pots a player can reach, closest first
ClosestOrders == {<<>>} \cup {<<l>> : l \in PotLocs}
                 \cup {o \in PotLocs \X PotLocs : o[1] # o[2]}

OvercookedStates ==
    [pots : [PotLocs -> PotContents], closest : [Players -> ClosestOrders]]

\* featurize_state, "Closest pots info": the pot_idx-th closest pot still in
\* pot_locations, <<>> when min_cost_to_feature finds none
ClosestPotLoc(state, i, pot_idx) ==
    IF pot_idx + 1 <= Len(state.closest[i])
    THEN <<state.closest[i][pot_idx + 1]>> ELSE <<>>

\* make_pot_feature(idx, player, pot_idx, pot_loc, pot_states)
MakePotFeature(state, pot_loc) ==
    IF pot_loc = <<>>
    THEN [exists |-> 0, is_empty |-> 0, is_cooking |-> 0, is_ready |-> 0,
          num_onions |-> 0, cook_time |-> 0]
    ELSE LET soup == state.pots[pot_loc[1]]
             is_empty == IF soup.phase = "empty" THEN 1 ELSE 0
             is_idle == soup.phase = "idle"
         IN [exists |-> 1,
             is_empty |-> is_empty,
             is_cooking |-> IF soup.phase = "cooking" THEN 1 ELSE 0,
             is_ready |-> IF soup.phase = "ready" THEN 1 ELSE 0,
             num_onions |-> IF is_empty = 0 THEN soup.num_onions ELSE 0,
             cook_time |-> IF is_empty = 0
                           THEN (IF is_idle THEN 0 ELSE soup.cook_time_remaining)
                           ELSE 0]

\* a game state about to be featurized
InitFeaturizer ==
    /\ overcooked_state \in OvercookedStates
    /\ all_features = <<>>
    /\ config = DefaultConfig
    /\ optimizer = <<>>
    /\ seed = 0
    /\ popart = FALSE
    /\ rng = 0
    /\ combined = <<>>
    /\ counts = ZeroCounts
    /\ log = <<>>
    /\ itLeft = MaxBatches
    /\ pc = "unbuilt"
    /\ samples = None
    /\ rpc = [d \in Replicas |-> "idle"]
    /\ contributed = {}
    /\ grads = [d \in Replicas |-> [i \in Agents |-> 0]]
    /\ reduced = [d \in Replicas |-> [i \in Agents |-> 0]]
    /\ out = [d \in Replicas |-> None]
    /\ snapshot = <<>>
    /\ selected_order = <<>>
    /\ readParams = <<>>
    /\ lastOp = "featurizer"
    /\ error = ""
    /\ replaced = <<>>
    /\ atCall = <<>>

\* featurize_state(overcooked_state, mlam, num_pots): the pot features of
\* every player and pot slot
FeaturizeState ==
    /\ lastOp = "featurizer"
    /\ all_features' =
          [i \in Players |-> [j \in PotSlots |->
              MakePotFeature(overcooked_state, ClosestPotLoc(overcooked_state, i, j))]]
    /\ lastOp' = "featurize_state"
    /\ UNCHANGED <<overcooked_state, config, optimizer, seed, popart, rng, combined,
                   counts, log, itLeft, pc, samples, rpc, contributed, grads,
                   reduced, out, snapshot, selected_order, readParams, error,
                   replaced, atCall>>

NextFeaturizer == FeaturizeState

SpecFeaturizer == InitFeaturizer /\ [][NextFeaturizer]_vars

\* ------------------------------------------------------------------ claims
AllDone == pc = "sgd" /\ \A d \in Replicas : rpc[d] = "done"

\* the mean over the replicas of agent i's raw gradients of the running step
MeanGradient(i) ==
    SumOver([e \in Replicas |-> RawGradient(combined[e], samples, e, i)], Replicas)
        \div NumReplicas

\* the sum over the replicas of agent i's raw gradients of the running step
SumGradient(i) ==
    SumOver([e \in Replicas |-> RawGradient(combined[e], samples, e, i)], Replicas)

\* C1: replica consistency. When the update starts from identical copies on all
\* replicas, the states sgd_step returns on any two replicas are identical,
\* whatever shards of the batch the replicas were given (both learner variants).
C1_ReplicaConsistency ==
    (\A d, e \in Replicas : combined[d] = combined[e]) =>
        \A d, e \in Replicas :
            (pc = "sgd" /\ rpc[d] = "done" /\ rpc[e] = "done") => out[d].state = out[e].state

\* C1 witness: a PopArt update has returned on every replica, the replicas were
\* given different shards and the state changed
C1_Witness ==
    /\ AllDone
    /\ popart
    /\ \E d, e \in Replicas : samples[d] # samples[e]
    /\ out[FirstDevice].state # combined[FirstDevice]
    /\ \E i \in Agents : out[FirstDevice].state.popart_state[i]
                            # combined[FirstDevice].popart_state[i]

\* C2: save/restore round trip. Every restore of the value save() returned leaves
\* every replica holding that value, and a save() that follows returns it again;
\* when the restore follows the save directly the learner's state is unchanged.
C2_SaveRestoreRoundTrip ==
    [][(lastOp' = "restore") =>
          /\ \A d \in Replicas : combined'[d] = snapshot[1]
          /\ Save(combined') = snapshot[1]
          /\ (lastOp = "save" => combined' = combined)]_vars

\* C2 witness: a restore has acted after at least one step, on a snapshot whose
\* agents differ, and the learner holds the snapshot
C2_Witness ==
    /\ lastOp = "restore"
    /\ counts.learner_steps >= 1
    /\ \E i, j \in Agents : AgentRecord(snapshot[1], i) # AgentRecord(snapshot[1], j)
    /\ Save(combined) = snapshot[1]

\* C3: gradient averaging. On every replica that has passed the reduction, the
\* gradient handed to the optimizer is, for every agent, the mean of the replicas'
\* raw gradients, and the new parameters are the optimizer step on that mean.
C3_GradientAveraging ==
    \A d \in Replicas :
        (pc = "sgd" /\ rpc[d] = "done") =>
            \A i \in Agents :
                /\ reduced[d][i] = MeanGradient(i)
                /\ out[d].state.params[i] =
                       ApplyUpdates(combined[d].params[i],
                                    OptimizerUpdate(MeanGradient(i),
                                                    combined[d].opt_state[i]).updates)
                /\ out[d].state.opt_state[i] =
                       OptimizerUpdate(MeanGradient(i), combined[d].opt_state[i]).opt_state

\* C3 witness: an update has returned for which the mean and the sum of the
\* replicas' gradients differ and give different optimizer steps
C3_Witness ==
    /\ AllDone
    /\ \E i \in Agents :
        /\ \E d, e \in Replicas : grads[d][i] # grads[e][i]
        /\ SumGradient(i) # MeanGradient(i)
        /\ OptimizerUpdate(SumGradient(i), combined[FirstDevice].opt_state[i]).updates
               # OptimizerUpdate(MeanGradient(i), combined[FirstDevice].opt_state[i]).updates

\* C4: reduction barrier. A replica that has applied the optimizer update did so
\* after every replica contributed the gradient of this step to the reduction,
\* and the gradient it applied was reduced over all of those contributions.
C4_ReductionBarrier ==
    \A d \in Replicas :
        (pc = "sgd" /\ rpc[d] = "done") =>
            /\ contributed = Replicas
            /\ \A e \in Replicas : rpc[e] # "grad"
            /\ \A e \in Replicas : \A i \in Agents :
                   grads[e][i] = RawGradient(combined[e], samples, e, i)
            /\ \A i \in Agents : reduced[d][i] = PMean([e \in Replicas |-> grads[e][i]])

\* C4 witness: one replica has applied its update while another still waits in
\* the reduction
C4_Witness ==
    /\ pc = "sgd"
    /\ \E d, e \in Replicas : rpc[d] = "done" /\ rpc[e] = "reduce"

\* the replicated state cmb with every agent other than i holding v in every leaf
OthersReplaced(cmb, i, v) ==
    [d \in Replicas |->
        [f \in DOMAIN cmb[d] |-> [j \in Agents |-> IF j = i THEN cmb[d][f][j] ELSE v]]]

\* the batch smp with the slice of every agent other than i replaced by w
OtherSlicesReplaced(smp, i, w) ==
    [d \in Replicas |-> [j \in Agents |-> IF j = i THEN smp[d][j] ELSE w]]

\* C5: agent isolation. The new record of agent i returned by the update is the
\* one the update returns for agent i in every run that differs only in the
\* other agents' states and batch slices.
C5_AgentIsolation ==
    AllDone =>
        \A i \in Agents : \A v \in SampleVals : \A w \in SampleVals :
            LET other_cmb == OthersReplaced(combined, i, v)
                other_smp == OtherSlicesReplaced(samples, i, w)
            IN \A d \in Replicas :
                   SgdStepFor(other_cmb, other_smp, d, i).state
                       = AgentRecord(out[d].state, i)

\* C5 witness: a PopArt update has returned, and a run that differs in the other
\* agents' states and slices gives another agent a different new record
C5_Witness ==
    /\ AllDone
    /\ popart
    /\ \E i, j \in Agents : \E v, w \in SampleVals :
        /\ j # i
        /\ SgdStepFor(OthersReplaced(combined, i, v),
                      OtherSlicesReplaced(samples, i, w), FirstDevice, j).state
               # AgentRecord(out[FirstDevice].state, j)

IsPermutationOfAgents(order) ==
    /\ DOMAIN order = Agents
    /\ \A i \in Agents : order[i] \in Agents
    /\ \A i, j \in Agents : order[i] = order[j] => i = j
    /\ \A a \in Agents : \E i \in Agents : order[i] = a

\* how many agents hold the record rec in state
Copies(state, rec) == Cardinality({i \in Agents : AgentRecord(state, i) = rec})

\* C6: the reshuffle is a pure permutation. The order drawn by a step is a
\* bijection on the agents, and on every replica the records after the reshuffle
\* are the records the update returned, each whole and each as many times.
C6_ReshuffleIsPermutation ==
    [][(pc = "sgd" /\ pc' = "idle") =>
          /\ IsPermutationOfAgents(selected_order')
          /\ \A d \in Replicas :
              /\ DOMAIN combined'[d] = DOMAIN out[d].state
              /\ \A i \in Agents :
                    /\ AgentRecord(combined'[d], i)
                          = AgentRecord(out[d].state, selected_order'[i])
                    /\ Copies(combined'[d], AgentRecord(out[d].state, i))
                          = Copies(out[d].state, AgentRecord(out[d].state, i))]_vars

\* C6 witness: a step has reshuffled agents holding different records with an
\* order that is not the identity
C6_Witness ==
    /\ pc = "idle"
    /\ lastOp = "step"
    /\ error = ""
    /\ selected_order # <<>>
    /\ \E i \in Agents : selected_order[i] # i
    /\ \E i, j \in Agents :
          AgentRecord(combined[FirstDevice], i) # AgentRecord(combined[FirstDevice], j)

\* C7 as stated: the snapshot save() returns carries the counter values of the
\* learner at the moment of the save.
C7_SnapshotCarriesCounters ==
    lastOp = "save" =>
        \A k \in DOMAIN counts : k \in DOMAIN snapshot[1] /\ snapshot[1][k] = counts[k]

\* C7 amended: the snapshot save() returns is the first replica's TrainingState
\* alone (params, opt_state and, for PopArt, popart_state); it holds no counter.
C7_SnapshotIsTrainingStateOnly ==
    lastOp = "save" =>
        /\ snapshot[1] = combined[FirstDevice]
        /\ DOMAIN snapshot[1] = Fields(popart)
        /\ DOMAIN snapshot[1] \cap DOMAIN counts = {}

\* C7 witness: a save() made after the counter has advanced
C7_Witness ==
    /\ lastOp = "save"
    /\ counts.learner_steps >= 1
    /\ snapshot # <<>>

\* the order and the replicated state one more step on batch b gives a learner
\* whose state is cmb and whose random sequence stands at key
StepOutcome(cmb, key, b) ==
    LET updated == [d \in Replicas |-> SgdStep(cmb, b)[d].state]
        shuffled == ShuffleAgents(updated, key)
    IN [order |-> shuffled.order, combined |-> shuffled.combined]

\* C8 as stated: a learner built from the same seed and restored from the
\* snapshot just saved gives, on every next batch, the agent order and the
\* training state the saving learner gives when it continues (checked in runs
\* that make no prediction calls).
C8_ReproducibleFromCheckpoint ==
    [][(lastOp = "save" /\ lastOp' = "reconstruct") =>
          \A b \in Batches :
              StepOutcome(combined', rng', b) = StepOutcome(combined, rng, b)]_vars

\* C9: iterator exhaustion. A step() on an exhausted iterator raises
\* StopIteration to its caller, does not pull again or enter the update, and
\* leaves TrainingState, counters, random sequence and logger as they were.
C9_IteratorExhaustion ==
    [][(pc = "idle" /\ itLeft = 0 /\ lastOp' = "step") =>
          /\ error' = "StopIteration"
          /\ pc' = "idle"
          /\ itLeft' = 0
          /\ combined' = combined
          /\ counts' = counts
          /\ rng' = rng
          /\ log' = log]_vars

\* C9 witness: step() has raised StopIteration after the steps that used up the
\* iterator
C9_Witness ==
    /\ lastOp = "step"
    /\ error = "StopIteration"
    /\ itLeft = 0
    /\ Len(log) = MaxBatches

\* C10: the action path is read-only. A call of _get_actions or get_variables
\* leaves every replica's TrainingState and the counters unchanged, and reads
\* the parameters of the current state.
C10_ActionPathReadOnly ==
    [][(lastOp' \in {"get_actions", "get_variables"}) =>
          /\ combined' = combined
          /\ counts' = counts
          /\ lastOp' = "get_actions" =>
                 \A d \in Replicas : readParams'[d] = combined[d].params
          /\ lastOp' = "get_variables" =>
                 readParams' = <<combined[FirstDevice].params>>]_vars

\* C10 witness: _get_actions has read the parameters a step left behind
C10_Witness ==
    /\ lastOp = "get_actions"
    /\ counts.learner_steps >= 1
    /\ readParams[FirstDevice] = combined[FirstDevice].params

\* C11: in the chain either builder hands to its learner, clipping by global
\* norm is the first stage and RMSProp the second, and RMSProp is given no
\* momentum (None) exactly when the configured rmsprop_momentum is zero and the
\* configured value whenever it is not zero.
C11_MomentumToggle ==
    optimizer # <<>> =>
        /\ Len(optimizer) = 2
        /\ optimizer[1].name = "clip_by_global_norm"
        /\ optimizer[1].max_norm = config.max_gradient_norm
        /\ optimizer[2].name = "rmsprop"
        /\ (optimizer[2].momentum = <<>>) <=> (config.rmsprop_momentum = 0)
        /\ config.rmsprop_momentum # 0 =>
               optimizer[2].momentum = <<config.rmsprop_momentum>>

C11_Witness ==
    /\ lastOp = "init"
    /\ ~popart
    /\ config.rmsprop_momentum = 0
    /\ optimizer # <<>>
    /\ optimizer[2].momentum = <<>>

\* C12: for every player i and pot slot j that holds a pot, the cook_time
\* feature is the remaining cook time of the soup when a soup is cooking in that
\* pot, and -1 when no soup is cooking in it.
C12_CookTimeFeature ==
    all_features # <<>> =>
        \A i \in Players, j \in PotSlots :
            LET pot_loc == ClosestPotLoc(overcooked_state, i, j)
            IN pot_loc # <<>> =>
                 LET soup == overcooked_state.pots[pot_loc[1]]
                 IN all_features[i][j].cook_time =
                       IF soup.phase = "cooking" THEN soup.cook_time_remaining
                                                 ELSE -1

\* the statements of a step in the order the driver reaches them
StatementOrder ==
    {<<"idle", "sgd">>, <<"sgd", "count">>, <<"count", "shuffle">>,
     <<"shuffle", "log">>, <<"log", "idle">>}

\* the step() in progress returns to its caller without raising
StepReturns == pc = "log" /\ pc' = "idle" /\ error' = ""

\* C13: a step() that succeeds goes, once each and in this order, through the
\* batch pull, the Batched Update Step, the counter increment by one learner
\* step, the agent reshuffle (on every step) and one logger write; each of them
\* leaves the others' results alone, and the record written holds the metrics of
\* this step's update and the counts after the increment.
C13_StepOrdering ==
    [][/\ pc' # pc => \/ <<pc, pc'>> \in StatementOrder
                      \/ pc' = "idle" /\ error' # ""
       /\ (pc = "idle" /\ pc' = "sgd") =>
             /\ itLeft' = itLeft - 1
             /\ samples' \in Batches
             /\ <<combined', counts', rng', log'>> = <<combined, counts, rng, log>>
       /\ (pc = "sgd" /\ pc' = "count") =>
             /\ combined' = [d \in Replicas |-> SgdStep(combined, samples)[d].state]
             /\ <<counts', rng', log'>> = <<counts, rng, log>>
       /\ (pc = "count" /\ pc' = "shuffle") =>
             /\ counts'.learner_steps = counts.learner_steps + 1
             /\ <<combined', rng', log'>> = <<combined, rng, log>>
       /\ (pc = "shuffle" /\ pc' = "log") =>
             /\ IsPermutationOfAgents(selected_order')
             /\ combined' = Restore(SelectIdx(Save(combined), selected_order'))
             /\ rng' # rng
             /\ <<counts', log'>> = <<counts, log>>
       /\ StepReturns =>
             /\ Len(log') = Len(log) + 1
             /\ SubSeq(log', 1, Len(log)) = log
             /\ LET record == log'[Len(log')]
                    results == SgdStep(atCall[1].combined, samples)[FirstDevice].metrics
                IN /\ record.param_norm = results.param_norm
                   /\ record.param_updates_norm = results.param_updates_norm
                   /\ record.learner_steps = atCall[1].counts.learner_steps + 1
                   /\ record.learner_steps = counts.learner_steps
                   /\ record.learner_time_elapsed = counts.learner_time_elapsed
             /\ <<combined', counts', rng'>> = <<combined, counts, rng>>
      ]_vars

\* C13 witness: two steps have succeeded, the second wrote the second record
\* with the count two and left the order it drew
C13_Witness ==
    /\ pc = "idle"
    /\ lastOp = "step"
    /\ error = ""
    /\ Len(log) = 2
    /\ log[2].learner_steps = 2
    /\ counts.learner_steps = 2
    /\ IsPermutationOfAgents(selected_order)

\* C14: params, opt_state and (PopArt) popart_state are replaced by the Batched
\* Update Step together, in the one assignment of its result, once in every
\* step() that succeeds; nothing else writes TrainingState but the reshuffle and
\* restore.
C14_CoupledSingleUpdate ==
    [][LET UpdateWrite == pc = "sgd" /\ pc' = "count"
           ReshuffleWrite == pc = "shuffle" /\ pc' = "log"
           RestoreWrite == pc = "idle" /\ lastOp' = "restore"
       IN /\ combined' # combined => UpdateWrite \/ ReshuffleWrite \/ RestoreWrite
          /\ replaced' # replaced => UpdateWrite
          /\ UpdateWrite =>
                /\ \A d \in Replicas :
                      /\ DOMAIN combined'[d] = Fields(popart)
                      /\ \A f \in Fields(popart) :
                            combined'[d][f] = SgdStep(combined, samples)[d].state[f]
                /\ DOMAIN replaced' = Fields(popart)
                /\ \A f \in Fields(popart) : replaced'[f] = replaced[f] + 1
          /\ StepReturns =>
                \A f \in Fields(popart) : replaced[f] = atCall[1].replaced[f] + 1
      ]_vars

\* C14 witness: a PopArt learner after two successful steps, each field
\* replaced twice
C14_Witness ==
    /\ popart
    /\ pc = "idle"
    /\ error = ""
    /\ Len(log) = 2
    /\ \A f \in {"params", "opt_state", "popart_state"} : replaced[f] = 2

\* step() has raised to its caller
StepRaised == lastOp = "step" /\ pc = "idle" /\ error # ""

\* C15 as stated: a step() that has raised, wherever it raised, has left the
\* TrainingState and the step counter as they were when it was called.
C15_FailedStepAllOrNothing ==
    StepRaised => /\ combined = atCall[1].combined
                  /\ counts = atCall[1].counts

\* C15 amended: a raise rolls nothing back. The raising statement leaves
\* TrainingState, counter and logger as the statements before it left them: as
\* they were at the call only for a raise at the batch pull or inside the
\* update; with the state replaced once a later statement raises; and with the
\* counter incremented too once the reshuffle or the logger write raises.
C15_FailedStepKeepsAppliedParts ==
    [][(lastOp' = "step" /\ pc' = "idle" /\ error' # "") =>
          /\ <<combined', counts', log', replaced'>> = <<combined, counts, log, replaced>>
          /\ pc \in {"idle", "sgd"} =>
                /\ combined' = atCall'[1].combined
                /\ counts' = atCall'[1].counts
                /\ rng' = atCall'[1].rng
          /\ pc \in {"count", "shuffle", "log"} =>
                \A f \in Fields(popart) : replaced'[f] = atCall'[1].replaced[f] + 1
          /\ pc = "count" => counts' = atCall'[1].counts
          /\ pc \in {"shuffle", "log"} =>
                counts'.learner_steps = atCall'[1].counts.learner_steps + 1
          /\ log' = atCall'[1].log
      ]_vars

\* C15 witness: the logger write has raised and the caller finds the updated
\* state and the incremented counter
C15_Witness ==
    /\ StepRaised
    /\ error = "write"
    /\ combined # atCall[1].combined
    /\ counts.learner_steps = atCall[1].counts.learner_steps + 1
    /\ log = atCall[1].log

\* C16: a call of _get_actions or _get_initial_lstm_states between two steps
\* changes nothing of what the next step() produces: on every batch the agent
\* order it draws and the training state it leaves are the same as without the
\* call.
C16_PredictionDoesNotInterfere ==
    [][(pc = "idle" /\ lastOp' \in {"get_actions", "get_initial_lstm_states"}) =>
          \A b \in Batches :
              StepOutcome(combined', rng', b) = StepOutcome(combined, rng, b)]_vars

====
